---- MODULE Spec2Model ----
(***************************************************************************)
(* Model of the camera playground page (HomePage), of the application      *)
(* shell that registers the service worker, and of the service worker.     *)
(*                                                                         *)
(* JavaScript numbers are IEEE-754 doubles.  The crop arithmetic of        *)
(* handleCapture is modelled bit-exactly: a finite double is a sign, a     *)
(* 53-bit integer mantissa held as a sequence of limbs, and a binary       *)
(* exponent; every operation computes the exact result and rounds it to 53 *)
(* significant bits, ties to even.  Overflow and subnormals are left out:  *)
(* every value the handler computes lies between 2^-10 and 2^10.           *)
(***************************************************************************)
EXTENDS Integers, Sequences, FiniteSets, TLC

(***************************************************************************)
(* Unbounded naturals as little-endian sequences of 15-bit limbs, without  *)
(* leading zero limbs.                                                     *)
(***************************************************************************)
LimbBits == 15

LimbBase == 2 ^ LimbBits

RECURSIVE Limbs(_)
Limbs(n) == IF n = 0 THEN <<>> ELSE <<n % LimbBase>> \o Limbs(n \div LimbBase)

RECURSIVE LimbsToNat(_)
LimbsToNat(a) == IF a = <<>> THEN 0 ELSE a[1] + LimbBase * LimbsToNat(Tail(a))

RECURSIVE Trim(_)
Trim(a) ==
  IF a = <<>> THEN <<>>
  ELSE IF a[Len(a)] = 0 THEN Trim(SubSeq(a, 1, Len(a) - 1)) ELSE a

Limb(a, i) == IF i <= Len(a) THEN a[i] ELSE 0

Max2(x, y) == IF x >= y THEN x ELSE y

RECURSIVE AddFrom(_, _, _, _)
AddFrom(a, b, i, c) ==
  IF i > Max2(Len(a), Len(b))
    THEN (IF c = 0 THEN <<>> ELSE <<c>>)
    ELSE LET s == Limb(a, i) + Limb(b, i) + c
         IN  <<s % LimbBase>> \o AddFrom(a, b, i + 1, s \div LimbBase)

BAdd(a, b) == Trim(AddFrom(a, b, 1, 0))

\* a - b for a >= b
RECURSIVE SubFrom(_, _, _, _)
SubFrom(a, b, i, c) ==
  IF i > Len(a) THEN <<>>
  ELSE LET d == Limb(a, i) - Limb(b, i) - c
       IN  <<(d + LimbBase) % LimbBase>>
             \o SubFrom(a, b, i + 1, IF d < 0 THEN 1 ELSE 0)

BSub(a, b) == Trim(SubFrom(a, b, 1, 0))

RECURSIVE CmpFrom(_, _, _)
CmpFrom(a, b, i) ==
  IF i = 0 THEN 0
  ELSE IF a[i] > b[i] THEN 1
  ELSE IF a[i] < b[i] THEN -1
  ELSE CmpFrom(a, b, i - 1)

\* -1, 0, 1 as a < b, a = b, a > b
BCmp(a, b) ==
  IF Len(a) > Len(b) THEN 1
  ELSE IF Len(a) < Len(b) THEN -1
  ELSE CmpFrom(a, b, Len(a))

\* a * k for 0 <= k < LimbBase
RECURSIVE ScaleFrom(_, _, _, _)
ScaleFrom(a, k, i, c) ==
  IF i > Len(a) THEN (IF c = 0 THEN <<>> ELSE <<c>>)
  ELSE LET p == a[i] * k + c
       IN  <<p % LimbBase>> \o ScaleFrom(a, k, i + 1, p \div LimbBase)

\* a \div k for 0 < k <= LimbBase, most significant limb first
RECURSIVE QuotFrom(_, _, _, _)
QuotFrom(a, k, i, r) ==
  IF i = 0 THEN <<>>
  ELSE LET cur == r * LimbBase + a[i]
       IN  QuotFrom(a, k, i - 1, cur % k) \o <<cur \div k>>

ZeroLimbs(n) == [i \in 1..n |-> 0]

\* a * 2^k
BShl(a, k) ==
  IF a = <<>> THEN <<>>
  ELSE ZeroLimbs(k \div LimbBits) \o ScaleFrom(a, 2 ^ (k % LimbBits), 1, 0)

\* a \div 2^k
BShr(a, k) ==
  LET q    == k \div LimbBits
      rest == IF q >= Len(a) THEN <<>> ELSE SubSeq(a, q + 1, Len(a))
  IN  Trim(QuotFrom(rest, 2 ^ (k % LimbBits), Len(rest), 0))

RECURSIVE MulFrom(_, _, _)
MulFrom(a, b, i) ==
  IF i > Len(b) THEN <<>>
  ELSE BAdd(ZeroLimbs(i - 1) \o ScaleFrom(a, b[i], 1, 0), MulFrom(a, b, i + 1))

BMul(a, b) == Trim(MulFrom(a, b, 1))

\* number of significant bits
BitLen(a) ==
  IF a = <<>> THEN 0
  ELSE LET top == a[Len(a)]
       IN  LimbBits * (Len(a) - 1)
             + (CHOOSE k \in 1..LimbBits : 2 ^ (k - 1) <= top /\ top < 2 ^ k)

\* bit i of a, the least significant being bit 1
BitAt(a, i) ==
  (Limb(a, (i - 1) \div LimbBits + 1) \div 2 ^ ((i - 1) % LimbBits)) % 2

\* one step of the long division: bit i of a comes down into remainder r
DivStep(a, b, i, q, r) ==
  LET r2 == BAdd(BAdd(r, r), Limbs(BitAt(a, i)))
  IN  IF BCmp(r2, b) >= 0
        THEN <<BAdd(BAdd(q, q), <<1>>), BSub(r2, b)>>
        ELSE <<BAdd(q, q), r2>>

\* long division over bits i, i-1, ..., lo+1 of a, most significant first,
\* continuing from quotient qr[1] and remainder qr[2]; each step's result is
\* bound as a value before the next step starts
RECURSIVE DivFrom(_, _, _, _, _)
DivFrom(a, b, i, lo, qr) ==
  IF i <= lo THEN qr
  ELSE CHOOSE res \in {DivFrom(a, b, i - 1, lo, st) :
                         st \in {DivStep(a, b, i, qr[1], qr[2])}} : TRUE

\* run j of the eight runs the division of an n-bit number is cut into,
\* which keeps the recursion shallow
DivRun(a, b, n, j, before) ==
  CHOOSE res \in {DivFrom(a, b, (n * (j + 1)) \div 8, (n * j) \div 8, qr) :
                    qr \in {before}} : TRUE

\* <<a \div b, a % b>>
BDivMod(a, b) ==
  LET n == BitLen(a)
  IN  DivRun(a, b, n, 0,
        DivRun(a, b, n, 1,
          DivRun(a, b, n, 2,
            DivRun(a, b, n, 3,
              DivRun(a, b, n, 4,
                DivRun(a, b, n, 5,
                  DivRun(a, b, n, 6,
                    DivRun(a, b, n, 7, <<<<>>, <<>>>>))))))))

(***************************************************************************)
(* IEEE-754 binary64 values: NaN, zero (m empty), or (-1)^neg * m * 2^e    *)
(* with m of exactly 53 significant bits.                                  *)
(***************************************************************************)
MantissaBits == 53

NaN == [nan |-> TRUE, neg |-> FALSE, m |-> <<>>, e |-> 0]

Zero == [nan |-> FALSE, neg |-> FALSE, m |-> <<>>, e |-> 0]

\* m * 2^e for m of at most 53 bits
Normal(neg, m, e) ==
  IF m = <<>> THEN Zero
  ELSE LET d == MantissaBits - BitLen(m)
       IN  [nan |-> FALSE, neg |-> neg, m |-> BShl(m, d), e |-> e - d]

FromInt(n) == Normal(FALSE, Limbs(n), 0)

IsZero(x) == ~x.nan /\ x.m = <<>>

\* the exact value (m + f) * 2^e, with sticky <=> 0 < f < 1, rounded to
\* nearest, ties to even; callers pass at least 55 bits when sticky
RoundNearestEven(neg, m, e, sticky) ==
  IF BitLen(m) <= MantissaBits THEN Normal(neg, m, e)
  ELSE LET s      == BitLen(m) - MantissaBits
           kept   == BShr(m, s)
           low    == BSub(m, BShl(kept, s))
           c      == BCmp(low, BShl(<<1>>, s - 1))
           up     == c > 0 \/ (c = 0 /\ (sticky \/ kept[1] % 2 = 1))
           r      == IF up THEN BAdd(kept, <<1>>) ELSE kept
       IN  IF BitLen(r) > MantissaBits
             THEN [nan |-> FALSE, neg |-> neg, m |-> BShr(r, 1), e |-> e + s + 1]
             ELSE [nan |-> FALSE, neg |-> neg, m |-> r, e |-> e + s]

FMul(x, y) ==
  IF x.nan \/ y.nan THEN NaN
  ELSE RoundNearestEven(x.neg # y.neg, BMul(x.m, y.m), x.e + y.e, FALSE)

\* 0/0 is NaN; a nonzero value is never divided by zero in the handler
FDiv(x, y) ==
  IF x.nan \/ y.nan \/ IsZero(y) THEN NaN
  ELSE IF IsZero(x) THEN Zero
  ELSE LET k  == MantissaBits + 2
           qr == BDivMod(BShl(x.m, k), y.m)
       IN  RoundNearestEven(x.neg # y.neg, qr[1], x.e - y.e - k, qr[2] # <<>>)

\* x - y for x, y >= 0
FSub(x, y) ==
  IF x.nan \/ y.nan THEN NaN
  ELSE IF IsZero(y) THEN x
  ELSE IF IsZero(x) THEN [y EXCEPT !.neg = TRUE]
  ELSE LET e  == IF x.e <= y.e THEN x.e ELSE y.e
           mx == BShl(x.m, x.e - e)
           my == BShl(y.m, y.e - e)
       IN  IF BCmp(mx, my) >= 0
             THEN RoundNearestEven(FALSE, BSub(mx, my), e, FALSE)
             ELSE RoundNearestEven(TRUE, BSub(my, mx), e, FALSE)

\* x / 2 (exact)
FHalf(x) == IF x.nan \/ IsZero(x) THEN x ELSE [x EXCEPT !.e = x.e - 1]

\* x > y for x, y >= 0; any comparison with NaN is false
FGt(x, y) ==
  IF x.nan \/ y.nan \/ IsZero(x) THEN FALSE
  ELSE IF IsZero(y) THEN TRUE
  ELSE LET e == IF x.e <= y.e THEN x.e ELSE y.e
       IN  BCmp(BShl(x.m, x.e - e), BShl(y.m, y.e - e)) > 0

\* x truncated to an integer, for 0 <= x < 2^30 (NaN becomes 0): the value
\* an unsigned long attribute such as canvas.width takes when assigned x
ToUint(x) ==
  IF x.nan \/ IsZero(x) THEN 0
  ELSE IF x.e >= 0 THEN LimbsToNat(BShl(x.m, x.e))
  ELSE LimbsToNat(BShr(x.m, 0 - x.e))

(***************************************************************************)
(* Types and constants of the page.                                        *)
(***************************************************************************)
OverlayModes == {"none", "thirds", "symmetry"}

FacingModes == {"user", "environment"}

\* RATIOS, as a function on the indices 0..3: the value of each option is
\* the double its division yields
RATIOS ==
  (0 :> [label |-> "1:1",  value |-> FromInt(1)]) @@
  (1 :> [label |-> "4:3",  value |-> FDiv(FromInt(4), FromInt(3))]) @@
  (2 :> [label |-> "3:2",  value |-> FDiv(FromInt(3), FromInt(2))]) @@
  (3 :> [label |-> "16:9", value |-> FDiv(FromInt(16), FromInt(9))])

RatiosLength == 4

(***************************************************************************)
(* Bounds of the model.                                                    *)
(***************************************************************************)
\* largest video frame the camera delivers
MaxWidth == 9

MaxHeight == 5

\* presses of the camera-switch button
MaxSwitches == 2

\* presses of the grid button
MaxGridPresses == 4

\* toBlob callbacks that may be outstanding at once
MaxBlobs == 1

\* fetch events the service worker receives
MaxFetches == 6

\* requests the page may send through the service worker
MaxUrls == 3

(***************************************************************************)
(* handleCapture: the crop rectangle for a frame of the given size.         *)
(***************************************************************************)
\* CropRect with the comparison of the two ratios turned around
CropRectReversed(frameWidth, frameHeight, targetRatio) ==
  LET W           == FromInt(frameWidth)
      H           == FromInt(frameHeight)
      videoRatio  == FDiv(W, H)
      wide        == FGt(targetRatio, videoRatio)
      cropWidth   == IF wide THEN FMul(H, targetRatio) ELSE W
      cropHeight  == IF wide THEN H ELSE FDiv(W, targetRatio)
  IN  [cropWidth  |-> cropWidth,
       cropHeight |-> cropHeight,
       sx         |-> FHalf(FSub(W, cropWidth)),
       sy         |-> FHalf(FSub(H, cropHeight))]

CropRect(frameWidth, frameHeight, targetRatio) ==
  LET W           == FromInt(frameWidth)
      H           == FromInt(frameHeight)
      videoRatio  == FDiv(W, H)
      wide        == FGt(videoRatio, targetRatio)
      cropWidth   == IF wide THEN FMul(H, targetRatio) ELSE W
      cropHeight  == IF wide THEN H ELSE FDiv(W, targetRatio)
  IN  [cropWidth  |-> cropWidth,
       cropHeight |-> cropHeight,
       sx         |-> FHalf(FSub(W, cropWidth)),
       sy         |-> FHalf(FSub(H, cropHeight))]

\* the crop rectangle of every frame size and ratio option
CropTable ==
  [w \in 0..MaxWidth, h \in 0..MaxHeight, i \in 0..(RatiosLength - 1) |->
     CropRect(w, h, RATIOS[i].value)]

(***************************************************************************)
(* State.                                                                  *)
(***************************************************************************)
VARIABLES
  mounted,        \* HomePage is mounted
  stream,         \* useState stream: 0 is null, n the stream of request n
  facingMode,     \* useState facingMode
  overlay,        \* useState overlay
  ratioIndex,     \* useState ratioIndex
  effectStream,   \* `stream` as captured by the closure of the live effect
  requests,       \* getUserMedia calls in order: facingMode asked, status
  running,        \* streams that still have a running track
  srcObject,      \* videoRef.current.srcObject
  videoWidth,     \* videoRef.current.videoWidth
  videoHeight,    \* videoRef.current.videoHeight
  canvas,         \* what the last handleCapture left on the canvas
  blobs,          \* toBlob callbacks not yet run
  download,       \* the last file handed to the browser for download
  gridPresses,    \* presses of the grid button so far
  swPhase,        \* life cycle of the service worker
  swCalls,        \* platform calls made by the worker's handlers
  inFlight,       \* requests whose fetch event returned, not yet answered
  servedBy,       \* who answered each request
  fetches         \* fetch events dispatched so far

cameraVars == <<mounted, stream, facingMode, effectStream, requests, running,
                srcObject, videoWidth, videoHeight>>

controlVars == <<overlay, ratioIndex, gridPresses>>

captureVars == <<canvas, blobs, download>>

swVars == <<swPhase, swCalls, inFlight, servedBy, fetches>>

vars == <<cameraVars, controlVars, captureVars, swVars>>

NoCanvas == [drawn |-> FALSE]

\* download: the label in the file name, the ratio the image was cropped
\* to, and the option that was selected when the capture button was pressed
NoDownload == [label |-> "", targetRatio |-> NaN, ratioIndex |-> -1]

currentRatio == RATIOS[ratioIndex]

Pending == {n \in 1..Len(requests) : requests[n].status = "pending"}

\* the state after the first render and its effect: initCamera has stopped
\* nothing (stream is null) and awaits getUserMedia for the front camera
Init ==
  /\ mounted = TRUE
  /\ stream = 0
  /\ facingMode = "user"
  /\ overlay = "none"
  /\ ratioIndex = 0
  /\ effectStream = 0
  /\ requests = <<[facingMode |-> "user", status |-> "pending"]>>
  /\ running = {}
  /\ srcObject = 0
  /\ videoWidth = 0
  /\ videoHeight = 0
  /\ canvas = NoCanvas
  /\ blobs = <<>>
  /\ download = NoDownload
  /\ gridPresses = 0
  /\ swPhase = "unregistered"
  /\ swCalls = {}
  /\ inFlight = {}
  /\ servedBy = [u \in 1..MaxUrls |-> "nobody"]
  /\ fetches = 0

(***************************************************************************)
(* The camera effect.                                                      *)
(***************************************************************************)
Toggle(prev) == IF prev = "user" THEN "environment" ELSE "user"

\* stream?.getTracks().forEach((track) => track.stop())
StopTracks(live, s) == live \ {s}

\* switchCamera, the render it causes and the effect of that render: the
\* cleanup of the previous effect stops the stream that effect captured, the
\* new effect captures the stream of this render, initCamera stops it and
\* calls getUserMedia
SwitchCamera ==
  /\ mounted
  /\ Len(requests) <= MaxSwitches
  /\ facingMode' = Toggle(facingMode)
  /\ running' = StopTracks(StopTracks(running, effectStream), stream)
  /\ effectStream' = stream
  /\ requests' = Append(requests,
                        [facingMode |-> facingMode', status |-> "pending"])
  /\ UNCHANGED <<mounted, stream, srcObject, videoWidth, videoHeight>>
  /\ UNCHANGED <<controlVars, captureVars, swVars>>

\* what initCamera does once getUserMedia has resolved with stream n; the
\* video element starts loading the new source and has no frame size yet
AfterAwait(n) ==
  /\ stream' = n
  /\ srcObject' = n
  /\ videoWidth' = 0
  /\ videoHeight' = 0

\* getUserMedia of request n resolves: the camera is on; while the page is
\* mounted setStream and srcObject take the new stream, afterwards the state
\* is gone and videoRef.current is null
GetUserMediaResolve(n) ==
  /\ n \in Pending
  /\ requests' = [requests EXCEPT ![n].status = "ok"]
  /\ running' = running \cup {n}
  /\ IF mounted
       THEN AfterAwait(n)
       ELSE UNCHANGED <<stream, srcObject, videoWidth, videoHeight>>
  /\ UNCHANGED <<mounted, facingMode, effectStream>>
  /\ UNCHANGED <<controlVars, captureVars, swVars>>

\* the video element has the metadata of its source: videoWidth and
\* videoHeight are the size of the frames the camera delivers
LoadedMetadata ==
  /\ mounted
  /\ srcObject # 0
  /\ videoWidth = 0
  /\ \E w \in 1..MaxWidth, h \in 1..MaxHeight :
       videoWidth' = w /\ videoHeight' = h
  /\ UNCHANGED <<mounted, stream, facingMode, effectStream, requests,
                 running, srcObject>>
  /\ UNCHANGED <<controlVars, captureVars, swVars>>

\* getUserMedia of request n rejects: the catch logs the error
GetUserMediaReject(n) ==
  /\ n \in Pending
  /\ requests' = [requests EXCEPT ![n].status = "failed"]
  /\ UNCHANGED <<mounted, stream, facingMode, effectStream, running,
                 srcObject, videoWidth, videoHeight>>
  /\ UNCHANGED <<controlVars, captureVars, swVars>>

\* the page unmounts: the cleanup of the live effect runs, the refs are null
Unmount ==
  /\ mounted
  /\ mounted' = FALSE
  /\ running' = StopTracks(running, effectStream)
  /\ srcObject' = 0
  /\ videoWidth' = 0
  /\ videoHeight' = 0
  /\ UNCHANGED <<stream, facingMode, effectStream, requests>>
  /\ UNCHANGED <<controlVars, captureVars, swVars>>

(***************************************************************************)
(* The controls.                                                           *)
(***************************************************************************)
\* NextOverlay that leaves 'thirds' for 'none'
NextOverlaySkipping(prev) == IF prev = "none" THEN "thirds" ELSE "none"

NextOverlay(prev) ==
  IF prev = "none" THEN "thirds"
  ELSE IF prev = "thirds" THEN "symmetry" ELSE "none"

\* switchOverlay (the grid button)
SwitchOverlay ==
  /\ mounted
  /\ gridPresses < MaxGridPresses
  /\ overlay' = NextOverlay(overlay)
  /\ gridPresses' = gridPresses + 1
  /\ UNCHANGED <<ratioIndex, cameraVars, captureVars, swVars>>

NextRatioIndex(prev) == (prev + 1) % RatiosLength

\* switchRatio (the ratio button)
SwitchRatio ==
  /\ mounted
  /\ ratioIndex' = NextRatioIndex(ratioIndex)
  /\ UNCHANGED <<overlay, gridPresses, cameraVars, captureVars, swVars>>

\* BlobLabel reading the ratio selected when the callback runs
BlobLabelAtCallback(b) == RATIOS[ratioIndex].label

\* the label the toBlob callback puts in the file name: currentRatio of the
\* render whose handleCapture created the callback
BlobLabel(b) == b.label

\* handleCapture up to and including the call of canvas.toBlob
HandleCapture ==
  /\ mounted
  /\ Len(blobs) < MaxBlobs
  /\ \E crop \in {CropTable[videoWidth, videoHeight, ratioIndex]} :
       \E width \in {ToUint(crop.cropWidth)}, height \in {ToUint(crop.cropHeight)} :
         /\ canvas' = [drawn       |-> TRUE,
                       videoWidth  |-> videoWidth,
                       videoHeight |-> videoHeight,
                       targetRatio |-> currentRatio.value,
                       cropWidth   |-> crop.cropWidth,
                       cropHeight  |-> crop.cropHeight,
                       sx          |-> crop.sx,
                       sy          |-> crop.sy,
                       width       |-> width,
                       height      |-> height,
                       mirrored    |-> (facingMode = "user")]
         /\ blobs' = Append(blobs, [label       |-> currentRatio.label,
                                    targetRatio |-> currentRatio.value,
                                    ratioIndex  |-> ratioIndex,
                                    hasPixels   |-> width > 0 /\ height > 0])
  /\ UNCHANGED <<download, cameraVars, controlVars, swVars>>

\* the toBlob callback: a canvas without pixels gives a null blob and no
\* download, otherwise the file photo-<label>-<timestamp>.png is downloaded
ToBlobCallback ==
  /\ blobs # <<>>
  /\ blobs' = Tail(blobs)
  /\ LET b == Head(blobs)
     IN  IF b.hasPixels
           THEN download' = [label       |-> BlobLabel(b),
                             targetRatio |-> b.targetRatio,
                             ratioIndex  |-> b.ratioIndex]
           ELSE UNCHANGED download
  /\ UNCHANGED <<canvas, cameraVars, controlVars, swVars>>

(***************************************************************************)
(* The service worker, and its registration by the application shell.      *)
(***************************************************************************)
\* App's effect: navigator.serviceWorker.register('/sw.js')
Register ==
  /\ swPhase = "unregistered"
  /\ swPhase' = "installing"
  /\ UNCHANGED <<swCalls, inFlight, servedBy, fetches>>
  /\ UNCHANGED <<cameraVars, controlVars, captureVars>>

\* the install listener
Install ==
  /\ swPhase = "installing"
  /\ swCalls' = swCalls \cup {"skipWaiting"}
  /\ swPhase' = "installed"
  /\ UNCHANGED <<inFlight, servedBy, fetches>>
  /\ UNCHANGED <<cameraVars, controlVars, captureVars>>

\* the activate listener
Activate ==
  /\ swPhase = "installed"
  /\ swCalls' = swCalls \cup {"clients.claim"}
  /\ swPhase' = "activated"
  /\ UNCHANGED <<inFlight, servedBy, fetches>>
  /\ UNCHANGED <<cameraVars, controlVars, captureVars>>

\* a fetch listener that answers from the cache
FetchListenerCacheFirst(u) ==
  [respondWith |-> TRUE, calls |-> {"caches.match", "respondWith"}]

\* the fetch listener for a request of u: its body is empty
FetchListener(u) == [respondWith |-> FALSE, calls |-> {}]

\* a fetch event for u: a listener that does not call respondWith leaves the
\* request to the browser's default handling
FetchEvent(u) ==
  /\ swPhase = "activated"
  /\ fetches < MaxFetches
  /\ u \notin inFlight
  /\ fetches' = fetches + 1
  /\ swCalls' = swCalls \cup FetchListener(u).calls
  /\ IF FetchListener(u).respondWith
       THEN /\ servedBy' = [servedBy EXCEPT ![u] = "worker"]
            /\ UNCHANGED inFlight
       ELSE /\ inFlight' = inFlight \cup {u}
            /\ UNCHANGED servedBy
  /\ UNCHANGED swPhase
  /\ UNCHANGED <<cameraVars, controlVars, captureVars>>

\* the browser answers a request the worker left alone from the network
NetworkResponse(u) ==
  /\ u \in inFlight
  /\ inFlight' = inFlight \ {u}
  /\ servedBy' = [servedBy EXCEPT ![u] = "network"]
  /\ UNCHANGED <<swPhase, swCalls, fetches>>
  /\ UNCHANGED <<cameraVars, controlVars, captureVars>>

(***************************************************************************)
(* Specifications.                                                         *)
(***************************************************************************)
\* the page with its camera and its cyclic controls
NextCamera ==
  \/ SwitchCamera
  \/ \E n \in 1..(MaxSwitches + 1) : GetUserMediaResolve(n)
  \/ \E n \in 1..(MaxSwitches + 1) : GetUserMediaReject(n)
  \/ Unmount
  \/ SwitchOverlay
  \/ SwitchRatio

SpecCamera == Init /\ [][NextCamera]_vars

\* the page with its first camera, the ratio button and the capture button
NextCapture ==
  \/ GetUserMediaResolve(1)
  \/ GetUserMediaReject(1)
  \/ LoadedMetadata
  \/ Unmount
  \/ SwitchRatio
  \/ HandleCapture
  \/ ToBlobCallback

SpecCapture == Init /\ [][NextCapture]_vars

\* the service worker
NextWorker ==
  \/ Register
  \/ Install
  \/ Activate
  \/ \E u \in 1..MaxUrls : FetchEvent(u)
  \/ \E u \in 1..MaxUrls : NetworkResponse(u)

SpecWorker == Init /\ [][NextWorker]_vars

(***************************************************************************)
(* Exact comparisons of doubles, for stating the properties.               *)
(***************************************************************************)
Min2(j, k) == IF j <= k THEN j ELSE k

\* |x - r * y| <= 2^-52 * r * y in exact arithmetic, for x, y, r >= 0
WithinRounding(x, y, r) ==
  LET p  == BMul(r.m, y.m)
      pe == r.e + y.e
      e0 == IF x.e <= pe THEN x.e ELSE pe
      xa == BShl(x.m, x.e - e0)
      pa == BShl(p, pe - e0)
      d  == IF BCmp(xa, pa) >= 0 THEN BSub(xa, pa) ELSE BSub(pa, xa)
  IN  BCmp(BShl(d, MantissaBits - 1), pa) <= 0

\* 0 <= start and start + size <= whole in exact arithmetic
InsideFrame(start, size, whole) ==
  LET e0 == Min2(Min2(start.e, size.e), whole.e)
  IN  /\ ~start.nan /\ ~size.nan
      /\ ~start.neg /\ ~size.neg
      /\ BCmp(BAdd(BShl(start.m, start.e - e0), BShl(size.m, size.e - e0)),
              BShl(whole.m, whole.e - e0)) <= 0

\* the canvas holds the crop of a frame of positive size
CroppedFrame ==
  canvas.drawn /\ canvas.videoWidth > 0 /\ canvas.videoHeight > 0

\* all that the crop satisfies exactly: one side is the frame's, the offsets
\* are half the difference, and the rectangle lies inside the frame
CropCentredInside ==
  LET W == FromInt(canvas.videoWidth)
      H == FromInt(canvas.videoHeight)
  IN  /\ canvas.cropWidth = W \/ canvas.cropHeight = H
      /\ canvas.sx = FHalf(FSub(W, canvas.cropWidth))
      /\ canvas.sy = FHalf(FSub(H, canvas.cropHeight))
      /\ InsideFrame(canvas.sx, canvas.cropWidth, W)
      /\ InsideFrame(canvas.sy, canvas.cropHeight, H)

(***************************************************************************)
(* Properties.                                                             *)
(***************************************************************************)
\* C4, as stated: for a frame of positive size the crop has aspect ratio
\* exactly R (cropWidth / cropHeight = R), one of its sides is the frame's,
\* it is centred with non-negative offsets and lies inside the frame.
C4_CropHasExactRatio ==
  CroppedFrame =>
    /\ FDiv(canvas.cropWidth, canvas.cropHeight) = canvas.targetRatio
    /\ CropCentredInside

\* C4, amended: for a frame of positive size the crop has aspect ratio R up
\* to the rounding of double arithmetic (|cropWidth - R * cropHeight| is at
\* most 2^-52 * R * cropHeight), one of its sides is the frame's, it is
\* centred with non-negative offsets and lies inside the frame.
C4_CropHasRatioWithinRounding ==
  CroppedFrame =>
    /\ WithinRounding(canvas.cropWidth, canvas.cropHeight, canvas.targetRatio)
    /\ CropCentredInside

\* a frame wider than the ratio has been cropped, and the quotient of the
\* crop's sides is not the double R
C4_Witness ==
  /\ CroppedFrame
  /\ canvas.cropWidth # FromInt(canvas.videoWidth)
  /\ canvas.sx # Zero
  /\ FDiv(canvas.cropWidth, canvas.cropHeight) # canvas.targetRatio

OverlayOrder == <<"none", "thirds", "symmetry">>

\* C5: the overlay mode is one of the three modes, starts at 'none', and is
\* the mode that the number of grid-button presses modulo 3 selects in the
\* order none, thirds, symmetry, whatever else was pressed.
C5_OverlayFollowsPresses ==
  /\ overlay \in OverlayModes
  /\ overlay = OverlayOrder[(gridPresses % 3) + 1]

\* the grid button has gone once round and one further, with the camera
\* switched and the ratio changed in between
C5_Witness ==
  /\ gridPresses = 4
  /\ overlay = "thirds"
  /\ Len(requests) > 1
  /\ ratioIndex # 0

LabelOrder == <<"1:1", "4:3", "3:2", "16:9">>

NextLabel(l) ==
  LET k == CHOOSE j \in 1..RatiosLength : LabelOrder[j] = l
  IN  LabelOrder[(k % RatiosLength) + 1]

\* C6: ratioIndex is always an index of RATIOS, every change of it advances
\* the selected option in the order 1:1, 4:3, 3:2, 16:9, 1:1, and the label
\* in a downloaded file's name and the ratio its image was cropped to are
\* those of the option that was selected when the capture button was pressed.
C6_RatioSelection ==
  /\ [](/\ ratioIndex \in 0..(RatiosLength - 1)
        /\ download # NoDownload =>
             /\ download.ratioIndex \in 0..(RatiosLength - 1)
             /\ download.label = RATIOS[download.ratioIndex].label
             /\ download.targetRatio = RATIOS[download.ratioIndex].value)
  /\ [][ratioIndex' # ratioIndex =>
          RATIOS[ratioIndex'].label = NextLabel(RATIOS[ratioIndex].label)]_vars

\* a photo was downloaded after the ratio button had moved the selection on
C6_Witness ==
  /\ download # NoDownload
  /\ download.label = "16:9"
  /\ ratioIndex # download.ratioIndex

\* C7: the worker's handlers call nothing but skipWaiting (on install) and
\* clients.claim (on activate): no fetch event is answered by the worker and
\* no cache is touched, so every answered request was answered by the network.
C7_WorkerPassesThrough ==
  /\ swCalls \subseteq {"skipWaiting", "clients.claim"}
  /\ \A u \in 1..MaxUrls : servedBy[u] \in {"nobody", "network"}
  /\ swPhase \in {"installed", "activated"} => "skipWaiting" \in swCalls
  /\ swPhase = "activated" => "clients.claim" \in swCalls
  /\ swPhase \in {"unregistered", "installing"} => swCalls = {}

\* every request has gone through a fetch event and has been answered
C7_Witness ==
  /\ swPhase = "activated"
  /\ fetches > MaxUrls
  /\ \A u \in 1..MaxUrls : servedBy[u] = "network"

\* C8, as stated: whenever no getUserMedia request is outstanding, at most
\* one acquired stream still has running tracks.
C8_AtMostOneStreamRunning ==
  Pending = {} => Cardinality(running) <= 1

\* C9, as stated: after the page has unmounted and every getUserMedia
\* request has settled, no acquired stream has running tracks.
C9_NothingRunningAfterUnmount ==
  (~mounted /\ Pending = {}) => running = {}

\* C10, as stated: whenever no getUserMedia request is outstanding and the
\* last request succeeded, the stream in state and on the video element is
\* the stream of that last request, which was asked for the current
\* facingMode.
C10_StreamIsOfLastRequest ==
  (mounted /\ Pending = {} /\ requests[Len(requests)].status = "ok") =>
    /\ stream = Len(requests)
    /\ srcObject = Len(requests)
    /\ requests[stream].facingMode = facingMode

====
